---- MODULE Spec2Model ----
(***************************************************************************)
(* The dictation tool (src/dictate.py): the key-event handlers on_press    *)
(* and on_release, the recording session (start_recording,                 *)
(* stop_recording) and the post-recording pipeline (stop_and_transcribe);  *)
(* and the speech-synthesis utility (src/tts.py), which shares the backend *)
(* flag file with it.                                                      *)
(*                                                                         *)
(* The pynput listener runs the callbacks one at a time on one thread, so  *)
(* a handler is a sequence of steps (pc) during which no other event is    *)
(* delivered.  An exception that leaves a callback stops the listener;     *)
(* listener.join() re-raises it and main() (which catches only             *)
(* KeyboardInterrupt) ends: pc = "stopped".                                *)
(*                                                                         *)
(* Temporary files and recorder processes are named by the number of the   *)
(* session that created them (1, 2, ...); 0 is Python's None.              *)
(*                                                                         *)
(* Four specifications: Spec, the dictation tool alone; SpecFlag, its      *)
(* toggle key next to invocations of the utility; SpecLang, the utility on *)
(* every input sentence; SpecPaste, copy_and_paste on every input text.    *)
(***************************************************************************)
EXTENDS Integers, Sequences, FiniteSets, TLC

\* Bound: how many recording sessions (temporary files) one run may start.
MaxSessions == 3

SUPER_KEYS == {"cmd", "cmd_l", "cmd_r"}
SHIFT_KEYS == {"shift", "shift_l", "shift_r"}
CommandKeys == {"f5", "f6", "f7", "f8", "f9"}
\* "other" stands for every key the handlers do not name.
Keys == SUPER_KEYS \cup SHIFT_KEYS \cup CommandKeys \cup {"other"}

Names == 1..MaxSessions

VARIABLES
    \* main()'s locals, shared by the closures
    super_held, shift_held, recording, arecord_proc, tmpfile, lock,
    \* control: "listen" (between events), a handler position, or "stopped"
    pc,
    \* the world outside the process
    disk,          \* temp file name -> "none" | "empty" | "data"
    procs,         \* recorder processes spawned and not yet reaped
    created,       \* number of temporary files created so far
    dictating,     \* DICTATING_FILE exists
    tts_skip, tts_prev, tts_pause,   \* navigation marker files exist
    tts_backend,   \* TTS_BACKEND_FILE: "absent" or its content
    \* observation of the event being handled (reset when an event arrives)
    cmd,           \* the command the event dispatched, "none" if none
    event,         \* [key, press]: the event itself, see EventKey
    repeat,        \* the event is a press of a command key already down
    beeps,         \* tones played
    printed,       \* status messages printed
    removed,       \* [tmp, marker]: unlink calls that removed a file
    pasted,        \* [clip, key]: clipboard writes, paste keystrokes
    \* observation of the whole run
    last_pressed,  \* command key pressed last and not released since
    reqs,          \* temp file name -> transcription requests made with it
    superseded,    \* files of sessions a begin-command discarded
    \* the speech-synthesis utility (src/tts.py), one invocation at a time
    stdin,         \* what an invocation finds on its standard input
    t_pc,          \* "off" (no invocation running) or its position
    USE_OPENAI,    \* the module global of line 38
    text,          \* the module global of line 49
    lang,          \* speak_piper's local: "none" | "fr" | "en"
    proc, proc_piper, proc_aplay,   \* children: "none" | "running" | "exited"
    pending,       \* an exception is on its way through a finally block
    t_out,         \* how the invocation's last speak call ended
    flag_seen,     \* TTS_BACKEND_FILE as the invocation found it
    flag_reads,    \* reads of TTS_BACKEND_FILE by the invocation
    \* copy_and_paste (dictate.py 141-147), character by character
    c_pc,          \* "off" or the call's position
    c_arg,         \* the text the call was given
    c_text,        \* its local `text`
    clipboard,     \* the texts xclip was given
    keystroke      \* the paste keystroke was sent

prog == <<super_held, shift_held, recording, arecord_proc, tmpfile, lock>>
nav == <<tts_skip, tts_prev, tts_pause, tts_backend>>
world == <<disk, procs, created, dictating, nav>>
obs == <<cmd, event, repeat, beeps, printed, removed, pasted>>
hist == <<last_pressed, reqs, superseded>>
utility == <<stdin, t_pc, USE_OPENAI, text, lang, proc, proc_piper,
             proc_aplay, pending, t_out, flag_seen, flag_reads>>
paste == <<c_pc, c_arg, c_text, clipboard, keystroke>>
vars == <<prog, pc, world, obs, hist, utility, paste>>

NoneRemoved == [tmp |-> 0, marker |-> 0]
NonePasted == [clip |-> 0, key |-> 0]

Count(s, x) == Cardinality({i \in DOMAIN s : s[i] = x})

\* dictate.py 119-123: the tone is played by a detached thread whose failure
\* nobody sees; the call itself only adds the tone to what was played.
play_beep(tone) == beeps' = Append(beeps, tone)

print(msg) == printed' = Append(printed, msg)

\* main() has set up (166-185): nothing held, no session, no event yet.
Started ==
    /\ super_held = FALSE /\ shift_held = FALSE
    /\ recording = FALSE /\ arecord_proc = 0 /\ tmpfile = 0
    /\ lock = FALSE
    /\ pc = "listen"
    /\ disk = [n \in Names |-> "none"]
    /\ procs = {}
    /\ created = 0
    /\ dictating = FALSE
    /\ tts_skip = FALSE /\ tts_prev = FALSE /\ tts_pause = FALSE
    /\ cmd = "none" /\ repeat = FALSE
    /\ event = [key |-> "none", press |-> FALSE]
    /\ beeps = <<>> /\ printed = <<>>
    /\ removed = NoneRemoved /\ pasted = NonePasted
    /\ last_pressed = "none"
    /\ reqs = [n \in Names |-> 0]
    /\ superseded = {}

\* No invocation of the utility is running; `input` is what one would read.
UtilityOff(input) ==
    /\ stdin = input
    /\ t_pc = "off"
    /\ USE_OPENAI = FALSE
    /\ text = <<>>
    /\ lang = "none"
    /\ proc = "none" /\ proc_piper = "none" /\ proc_aplay = "none"
    /\ pending = FALSE
    /\ t_out = "none"
    /\ flag_seen = "unread"
    /\ flag_reads = 0

\* No call of copy_and_paste is followed character by character.
PasteOff ==
    /\ c_pc = "off"
    /\ c_arg = <<>> /\ c_text = <<>> /\ clipboard = <<>>
    /\ keystroke = FALSE

\* The dictation tool on its own; the flag file is as an earlier run left
\* it (the toggle writes `piper` or `openai`, 274-275).
Init ==
    /\ Started
    /\ tts_backend \in {"absent", "piper", "openai"}
    /\ UtilityOff(<<>>)
    /\ PasteOff

(***************************************************************************)
(* Key events.                                                             *)
(***************************************************************************)

\* How an event is observed: the modifier it belongs to (243-244), the
\* key of a press, "any" for a release of a key that is no modifier.
EventKey(key, press) ==
    IF key \in SUPER_KEYS THEN "super"
    ELSE IF key \in SHIFT_KEYS THEN "shift"
    ELSE IF press THEN key ELSE "any"

\* What the arrival of any event does to the observation: a press of a
\* command key that is still down from its previous press is a key-repeat.
Arrive(key, press) ==
    /\ event' = [key |-> EventKey(key, press), press |-> press]
    /\ repeat' = (press /\ key \in CommandKeys /\ last_pressed = key)
    /\ last_pressed' =
         IF key \notin CommandKeys THEN last_pressed
         ELSE IF press THEN key
         ELSE IF last_pressed = key THEN "none" ELSE last_pressed
    /\ removed' = NoneRemoved
    /\ pasted' = NonePasted

\* A dispatch whose f6 branch forgets `and recording`.
Command_end_unguarded(key) ==
    IF key \in SUPER_KEYS \/ key \in SHIFT_KEYS \/ ~super_held THEN "none"
    ELSE IF key = "f5" THEN (IF recording THEN "restart" ELSE "begin")
    ELSE IF key = "f6" THEN "end"
    ELSE IF key = "f7" THEN (IF shift_held THEN "prev" ELSE "skip")
    ELSE IF key = "f8" THEN "pause"
    ELSE IF key = "f9" THEN "toggle"
    ELSE "none"

\* A dispatch whose f7 branch does not look at the secondary modifier.
Command_ignores_shift(key) ==
    IF key \in SUPER_KEYS \/ key \in SHIFT_KEYS \/ ~super_held THEN "none"
    ELSE IF key = "f5" THEN (IF recording THEN "restart" ELSE "begin")
    ELSE IF key = "f6" /\ recording THEN "end"
    ELSE IF key = "f7" THEN "skip"
    ELSE IF key = "f8" THEN "pause"
    ELSE IF key = "f9" THEN "toggle"
    ELSE "none"

\* dictate.py 249-276: the command on_press dispatches for `key`, "none"
\* when it returns early or no branch matches.
Command(key) ==
    IF key \in SUPER_KEYS \/ key \in SHIFT_KEYS \/ ~super_held THEN "none"
    ELSE IF key = "f5" THEN (IF recording THEN "restart" ELSE "begin")
    ELSE IF key = "f6" /\ recording THEN "end"
    ELSE IF key = "f7" THEN (IF shift_held THEN "prev" ELSE "skip")
    ELSE IF key = "f8" THEN "pause"
    ELSE IF key = "f9" THEN "toggle"
    ELSE "none"

\* str.strip() on what the flag file may hold: the toggle writes the bare
\* word (write_text, 275), a line written by hand ends in a newline.
strip_line(content) ==
    IF content = "piper\n" THEN "piper"
    ELSE IF content = "openai\n" THEN "openai"
    ELSE content

\* dictate.py 270-273: the backend the toggle takes to be the current one.
current_backend(content) ==
    IF content = "absent" THEN "piper" ELSE strip_line(content)

\* A toggle that, finding no flag file, persists the default it assumed.
toggled_persists_default(content) ==
    IF content = "absent" THEN "piper"
    ELSE IF current_backend(content) = "piper" THEN "openai" ELSE "piper"

\* dictate.py 274: what a toggle writes when the flag file holds `content`.
toggled(content) ==
    IF current_backend(content) = "piper" THEN "openai" ELSE "piper"

\* dictate.py 270-274: the backend the toggle writes.
new_backend == toggled(tts_backend)

\* dictate.py 246-276.  The modifier branches and the marker branches run
\* to the end of the handler in one step (the lock is taken and released
\* within it); f5 and f6 enter start_recording and stop_and_transcribe with
\* the lock held.
on_press(key) ==
    /\ pc = "listen"
    /\ Arrive(key, TRUE)
    /\ cmd' = Command(key)
    /\ beeps' = <<>>
    /\ UNCHANGED <<recording, arecord_proc, tmpfile, disk, procs, created,
                   dictating, reqs, superseded>>
    /\ \/ /\ key \in SUPER_KEYS
          /\ super_held' = TRUE
          /\ printed' = <<>>
          /\ UNCHANGED <<shift_held, lock, pc, nav>>
       \/ /\ key \in SHIFT_KEYS
          /\ shift_held' = TRUE
          /\ printed' = <<>>
          /\ UNCHANGED <<super_held, lock, pc, nav>>
       \/ /\ Command(key) = "none"
          /\ key \notin SUPER_KEYS \cup SHIFT_KEYS
          /\ printed' = <<>>
          /\ UNCHANGED <<super_held, shift_held, lock, pc, nav>>
       \/ /\ Command(key) \in {"begin", "restart"}
          /\ created < MaxSessions
          /\ lock' = TRUE
          /\ pc' = "start_recording"
          /\ printed' = <<>>
          /\ UNCHANGED <<super_held, shift_held, nav>>
       \/ /\ Command(key) = "end"
          /\ lock' = TRUE
          /\ pc' = "stop_and_transcribe"
          /\ printed' = <<>>
          /\ UNCHANGED <<super_held, shift_held, nav>>
       \/ /\ Command(key) = "prev"
          /\ tts_prev' = TRUE
          /\ printed' = <<>>
          /\ UNCHANGED <<super_held, shift_held, lock, pc, tts_skip,
                         tts_pause, tts_backend>>
       \/ /\ Command(key) = "skip"
          /\ tts_skip' = TRUE
          /\ printed' = <<>>
          /\ UNCHANGED <<super_held, shift_held, lock, pc, tts_prev,
                         tts_pause, tts_backend>>
       \/ /\ Command(key) = "pause"
          /\ tts_pause' = TRUE
          /\ printed' = <<>>
          /\ UNCHANGED <<super_held, shift_held, lock, pc, tts_skip, tts_prev,
                         tts_backend>>
       \/ /\ Command(key) = "toggle"
          /\ tts_backend' = new_backend
          /\ printed' = <<"backend">>
          /\ UNCHANGED <<super_held, shift_held, lock, pc, tts_skip, tts_prev,
                         tts_pause>>
    /\ UNCHANGED <<utility, paste>>

\* A release handler whose shift branch clears the trigger flag.
on_release_clears_super(key) ==
    /\ pc = "listen"
    /\ Arrive(key, FALSE)
    /\ cmd' = "none"
    /\ beeps' = <<>> /\ printed' = <<>>
    /\ super_held' = IF key \in SUPER_KEYS \cup SHIFT_KEYS THEN FALSE
                     ELSE super_held
    /\ shift_held' = shift_held
    /\ UNCHANGED <<recording, arecord_proc, tmpfile, lock, pc, world, reqs,
                   superseded>>
    /\ UNCHANGED <<utility, paste>>

\* dictate.py 278-283: no lock is taken.
on_release(key) ==
    /\ pc = "listen"
    /\ Arrive(key, FALSE)
    /\ cmd' = "none"
    /\ beeps' = <<>> /\ printed' = <<>>
    /\ super_held' = IF key \in SUPER_KEYS THEN FALSE ELSE super_held
    /\ shift_held' = IF key \notin SUPER_KEYS /\ key \in SHIFT_KEYS
                     THEN FALSE ELSE shift_held
    /\ UNCHANGED <<recording, arecord_proc, tmpfile, lock, pc, world, reqs,
                   superseded>>
    /\ UNCHANGED <<utility, paste>>

(***************************************************************************)
(* The recording session.                                                  *)
(***************************************************************************)

\* A stop that forgets `arecord_proc = None`.
stop_recording_keeps_handle(wrote) ==
    /\ IF arecord_proc # 0
       THEN /\ procs' = procs \ {arecord_proc}
            /\ disk' = IF wrote /\ disk[arecord_proc] # "none"
                       THEN [disk EXCEPT ![arecord_proc] = "data"]
                       ELSE disk
       ELSE UNCHANGED <<procs, disk>>
    /\ UNCHANGED arecord_proc
    /\ recording' = FALSE

\* dictate.py 187-193.  SIGINT and wait(): the recorder has exited when the
\* call returns; `wrote` is whether it put any audio into its file.
stop_recording(wrote) ==
    /\ IF arecord_proc # 0
       THEN /\ procs' = procs \ {arecord_proc}
            /\ disk' = IF wrote /\ disk[arecord_proc] # "none"
                       THEN [disk EXCEPT ![arecord_proc] = "data"]
                       ELSE disk
            /\ arecord_proc' = 0
       ELSE UNCHANGED <<procs, disk, arecord_proc>>
    /\ recording' = FALSE

\* A restart that plays the "stop" tone for the session it stops.
start_recording_beeps_stop ==
    /\ pc = "start_recording"
    /\ IF recording
       THEN /\ \E wrote \in BOOLEAN : stop_recording(wrote)
            /\ play_beep("stop")
            /\ pc' = "discard"
       ELSE /\ pc' = "touch"
            /\ UNCHANGED <<recording, arecord_proc, procs, disk, beeps>>
    /\ UNCHANGED <<super_held, shift_held, tmpfile, lock, created, dictating,
                   nav, cmd, event, repeat, printed, removed, pasted, hist>>
    /\ UNCHANGED <<utility, paste>>

\* dictate.py 197-198: an active session is stopped first.
start_recording ==
    /\ pc = "start_recording"
    /\ IF recording
       THEN /\ \E wrote \in BOOLEAN : stop_recording(wrote)
            /\ pc' = "discard"
       ELSE /\ pc' = "touch"
            /\ UNCHANGED <<recording, arecord_proc, procs, disk>>
    /\ UNCHANGED <<super_held, shift_held, tmpfile, lock, created, dictating,
                   nav, obs, hist>>
    /\ UNCHANGED <<utility, paste>>

\* A restart that forgets os.unlink(tmpfile): the old file stays on disk.
discard_keeps_file ==
    /\ pc = "discard"
    /\ superseded' = IF tmpfile # 0 THEN superseded \cup {tmpfile}
                     ELSE superseded
    /\ print("restarted")
    /\ pc' = "touch"
    /\ UNCHANGED <<prog, world, cmd, event, repeat, beeps, removed, pasted,
                   last_pressed, reqs>>
    /\ UNCHANGED <<utility, paste>>

\* A restart that prints no "(restarted)".
discard_silent ==
    /\ pc = "discard"
    /\ IF tmpfile # 0
       THEN /\ disk' = [disk EXCEPT ![tmpfile] = "none"]
            /\ superseded' = superseded \cup {tmpfile}
       ELSE UNCHANGED <<disk, superseded>>
    /\ pc' = "touch"
    /\ UNCHANGED <<prog, procs, created, dictating, nav, obs, last_pressed,
                   reqs>>
    /\ UNCHANGED <<utility, paste>>

\* dictate.py 199-201: the superseded session's file is deleted.
discard ==
    /\ pc = "discard"
    /\ IF tmpfile # 0
       THEN /\ disk' = [disk EXCEPT ![tmpfile] = "none"]
            /\ superseded' = superseded \cup {tmpfile}
       ELSE UNCHANGED <<disk, superseded>>
    /\ print("restarted")
    /\ pc' = "touch"
    /\ UNCHANGED <<prog, procs, created, dictating, nav, cmd, event,
                   repeat, beeps, removed, pasted, last_pressed, reqs>>
    /\ UNCHANGED <<utility, paste>>

\* A start that never creates the marker.
touch_skipped ==
    /\ pc = "touch"
    /\ pc' = "tempfile"
    /\ UNCHANGED <<prog, world, obs, hist>>
    /\ UNCHANGED <<utility, paste>>

\* dictate.py 203: the Dictation-Active Marker.
touch_dictating ==
    /\ pc = "touch"
    /\ dictating' = TRUE
    /\ pc' = "tempfile"
    /\ UNCHANGED <<prog, disk, procs, created, nav, obs, hist>>
    /\ UNCHANGED <<utility, paste>>

\* dictate.py 204-208: a fresh, empty temporary file; the session is active.
new_tempfile ==
    /\ pc = "tempfile"
    /\ created' = created + 1
    /\ disk' = [disk EXCEPT ![created + 1] = "empty"]
    /\ tmpfile' = created + 1
    /\ recording' = TRUE
    /\ play_beep("start")
    /\ pc' = "popen"
    /\ UNCHANGED <<super_held, shift_held, arecord_proc, lock, procs,
                   dictating, nav, cmd, event, repeat, printed, removed,
                   pasted, hist>>
    /\ UNCHANGED <<utility, paste>>

\* dictate.py 209-214: the recorder is spawned, or Popen raises (OSError):
\* nothing in start_recording or on_press catches it, the lock is released
\* by the with-block and the exception stops the listener (285-289).
popen ==
    /\ pc = "popen"
    /\ \/ /\ arecord_proc' = tmpfile
          /\ procs' = procs \cup {tmpfile}
          /\ print("recording")
          /\ pc' = "listen"
       \/ /\ pc' = "stopped"
          /\ UNCHANGED <<arecord_proc, procs, printed>>
    /\ lock' = FALSE
    /\ UNCHANGED <<super_held, shift_held, recording, tmpfile, disk, created,
                   dictating, nav, cmd, event, repeat, beeps, removed,
                   pasted, hist>>
    /\ UNCHANGED <<utility, paste>>

(***************************************************************************)
(* The post-recording pipeline.                                            *)
(***************************************************************************)

\* dictate.py 218-219.
stop_and_transcribe ==
    /\ pc = "stop_and_transcribe"
    /\ \E wrote \in BOOLEAN : stop_recording(wrote)
    /\ play_beep("stop")
    /\ pc' = "try"
    /\ UNCHANGED <<super_held, shift_held, tmpfile, lock, created, dictating,
                   nav, cmd, event, repeat, printed, removed, pasted,
                   hist>>
    /\ UNCHANGED <<utility, paste>>

\* dictate.py 221: the file is uploaded only when it holds audio.
has_audio == tmpfile # 0 /\ disk[tmpfile] = "data"

\* dictate.py 221-223, 230-233 and 153-159: with audio, transcribe() posts
\* the file (one request, now in flight); without, "(no audio)"; getsize of
\* a missing file raises and is reported.
try_transcribe ==
    /\ pc = "try"
    /\ IF tmpfile # 0 /\ disk[tmpfile] = "none"
       THEN /\ print("error")
            /\ pc' = "finally"
            /\ UNCHANGED reqs
       ELSE IF has_audio
       THEN /\ print("transcribing")
            /\ reqs' = [reqs EXCEPT ![tmpfile] = @ + 1]
            /\ pc' = "transcribe"
       ELSE /\ print("noaudio")
            /\ pc' = "finally"
            /\ UNCHANGED reqs
    /\ UNCHANGED <<prog, world, cmd, event, repeat, beeps, removed, pasted,
                   last_pressed, superseded>>
    /\ UNCHANGED <<utility, paste>>

\* A pipeline without the `if text` test: an empty text is pasted too.
transcribe_pastes_empty ==
    /\ pc = "transcribe"
    /\ \/ /\ print("text")
          /\ pc' = "paste"
       \/ /\ print("empty")
          /\ pc' = "paste"
       \/ /\ print("error")
          /\ pc' = "finally"
    /\ UNCHANGED <<prog, world, cmd, event, repeat, beeps, removed, pasted,
                   hist>>
    /\ UNCHANGED <<utility, paste>>

\* A pipeline that sends the file again after a failed request.
transcribe_retries ==
    /\ pc = "transcribe"
    /\ \/ /\ print("text")
          /\ pc' = "paste"
       \/ /\ print("empty")
          /\ pc' = "finally"
       \/ /\ print("error")
          /\ pc' = IF Len(printed) < 3 THEN "try" ELSE "finally"
    /\ UNCHANGED <<prog, world, cmd, event, repeat, beeps, removed, pasted,
                   hist>>
    /\ UNCHANGED <<utility, paste>>

\* A call that a begin-command can cut short: the handler of the new
\* command starts while the request is in flight.
transcribe_interruptible ==
    /\ pc = "transcribe"
    /\ \/ /\ print("text")
          /\ pc' = "paste"
          /\ UNCHANGED cmd
       \/ /\ print("empty")
          /\ pc' = "finally"
          /\ UNCHANGED cmd
       \/ /\ print("error")
          /\ pc' = "finally"
          /\ UNCHANGED cmd
       \/ /\ created < MaxSessions
          /\ cmd' = "begin"
          /\ pc' = "start_recording"
          /\ UNCHANGED printed
    /\ UNCHANGED <<prog, world, event, repeat, beeps, removed, pasted, hist>>
    /\ UNCHANGED <<utility, paste>>

\* dictate.py 160-161, 224-225, 228-229, 232-233: the request ends with a
\* non-empty text, an empty text, or an exception (network, HTTP status,
\* malformed body), which is reported; nothing is sent again.
transcribe ==
    /\ pc = "transcribe"
    /\ \/ /\ print("text")
          /\ pc' = "paste"
       \/ /\ print("empty")
          /\ pc' = "finally"
       \/ /\ print("error")
          /\ pc' = "finally"
    /\ UNCHANGED <<prog, world, cmd, event, repeat, beeps, removed, pasted,
                   hist>>
    /\ UNCHANGED <<utility, paste>>

\* dictate.py 141-147, 226-227, 232-233: xclip writes the clipboard or
\* fails; in a terminal window the paste keystroke follows and may fail
\* too; a failure (check=True) is reported and skips the "ready" tone.
copy_and_paste ==
    /\ pc = "paste"
    /\ \/ /\ UNCHANGED <<pasted, beeps>>
          /\ print("error")
       \/ \E is_terminal \in BOOLEAN :
          /\ pasted' = [clip |-> pasted.clip + 1,
                        key |-> pasted.key + (IF is_terminal THEN 1 ELSE 0)]
          /\ play_beep("ready")
          /\ UNCHANGED printed
       \/ /\ pasted' = [pasted EXCEPT !.clip = @ + 1]
          /\ print("error")
          /\ UNCHANGED beeps
    /\ pc' = "finally"
    /\ UNCHANGED <<prog, world, cmd, event, repeat, removed, hist>>
    /\ UNCHANGED <<utility, paste>>

\* A cleanup that clears the reference without deleting the file.
finally_no_unlink ==
    /\ pc = "finally"
    /\ tmpfile' = 0
    /\ dictating' = FALSE
    /\ removed' = [removed EXCEPT !.marker = @ + (IF dictating THEN 1 ELSE 0)]
    /\ lock' = FALSE
    /\ pc' = "listen"
    /\ UNCHANGED <<super_held, shift_held, recording, arecord_proc, disk,
                   procs, created, nav, cmd, event, repeat, beeps, printed,
                   pasted, hist>>
    /\ UNCHANGED <<utility, paste>>

\* dictate.py 234-241: the temporary file, then the marker; the with-block
\* of on_press releases the lock and the handler returns.
finally ==
    /\ pc = "finally"
    /\ IF tmpfile # 0
       THEN /\ disk' = [disk EXCEPT ![tmpfile] = "none"]
            /\ tmpfile' = 0
       ELSE UNCHANGED <<disk, tmpfile>>
    /\ dictating' = FALSE
    /\ removed' = [tmp |-> removed.tmp + (IF tmpfile # 0 THEN 1 ELSE 0),
                   marker |-> removed.marker + (IF dictating THEN 1 ELSE 0)]
    /\ lock' = FALSE
    /\ pc' = "listen"
    /\ UNCHANGED <<super_held, shift_held, recording, arecord_proc, procs,
                   created, nav, cmd, event, repeat, beeps, printed,
                   pasted, hist>>
    /\ UNCHANGED <<utility, paste>>

Next ==
    \/ \E key \in Keys : on_press(key)
    \/ \E key \in Keys : on_release(key)
    \/ start_recording
    \/ discard
    \/ touch_dictating
    \/ new_tempfile
    \/ popen
    \/ stop_and_transcribe
    \/ try_transcribe
    \/ transcribe
    \/ copy_and_paste
    \/ finally

Spec == Init /\ [][Next]_vars

TypeOK ==
    /\ super_held \in BOOLEAN /\ shift_held \in BOOLEAN
    /\ recording \in BOOLEAN /\ lock \in BOOLEAN
    /\ arecord_proc \in 0..MaxSessions /\ tmpfile \in 0..MaxSessions
    /\ created \in 0..MaxSessions
    /\ procs \subseteq Names /\ superseded \subseteq Names
    /\ dictating \in BOOLEAN
    /\ pc \in {"listen", "stopped", "start_recording", "discard", "touch",
              "tempfile", "popen", "stop_and_transcribe", "try",
              "transcribe", "paste", "finally"}
    /\ lock = (pc \notin {"listen", "stopped"})

(***************************************************************************)
(* The speech-synthesis utility (src/tts.py).  One invocation is one run   *)
(* of the script: the flag is read while the module is loaded (38), then   *)
(* standard input (49), then one of the two speak functions is called      *)
(* (130-133).  A text is a sequence of code points.                        *)
(***************************************************************************)

tool == <<prog, pc, world, obs, hist>>

Whitespace == {9, 10, 11, 12, 13, 28, 29, 30, 31, 32}

RECURSIVE lstrip(_)
lstrip(s) ==
    IF s # <<>> /\ Head(s) \in Whitespace THEN lstrip(Tail(s)) ELSE s

RECURSIVE rstrip(_)
rstrip(s) ==
    IF s # <<>> /\ s[Len(s)] \in Whitespace
    THEN rstrip(SubSeq(s, 1, Len(s) - 1)) ELSE s

\* str.strip()
strip(s) == rstrip(lstrip(s))

\* str.lower() on one code point: A-Z, the capitals of Latin-1, OE and Y
\* with diaeresis have a lower-case form; nothing else used here has.
lower(c) ==
    IF c \in 65..90 \/ c \in 192..214 \/ c \in 216..222 THEN c + 32
    ELSE IF c = 338 THEN 339
    ELSE IF c = 376 THEN 255
    ELSE c

\* Python's `m in t` on strings: m occurs in t as a substring.
Contains(t, m) ==
    \E i \in 1..(Len(t) - Len(m) + 1) : SubSeq(t, i, i + Len(m) - 1) = m

\* tts.py 91-94: fourteen accented letters, nineteen words between spaces.
french_markers == <<
    <<224>>, <<233>>, <<232>>, <<234>>, <<235>>, <<239>>, <<244>>,
    <<249>>, <<251>>, <<252>>, <<255>>, <<231>>, <<339>>, <<230>>,
    <<32, 108, 101, 32>>,                           \* ' le '
    <<32, 108, 97, 32>>,                            \* ' la '
    <<32, 108, 101, 115, 32>>,                      \* ' les '
    <<32, 100, 101, 115, 32>>,                      \* ' des '
    <<32, 100, 117, 32>>,                           \* ' du '
    <<32, 117, 110, 32>>,                           \* ' un '
    <<32, 117, 110, 101, 32>>,                      \* ' une '
    <<32, 101, 115, 116, 32>>,                      \* ' est '
    <<32, 115, 111, 110, 116, 32>>,                 \* ' sont '
    <<32, 100, 97, 110, 115, 32>>,                  \* ' dans '
    <<32, 112, 111, 117, 114, 32>>,                 \* ' pour '
    <<32, 97, 118, 101, 99, 32>>,                   \* ' avec '
    <<32, 113, 117, 101, 32>>,                      \* ' que '
    <<32, 113, 117, 105, 32>>,                      \* ' qui '
    <<32, 110, 111, 117, 115, 32>>,                 \* ' nous '
    <<32, 118, 111, 117, 115, 32>>,                 \* ' vous '
    <<32, 99, 39, 101, 115, 116, 32>>,              \* ' c'est '
    <<32, 106, 39, 97, 105, 32>>,                   \* ' j'ai '
    <<32, 110, 39, 101, 115, 116, 32>> >>           \* ' n'est '

\* tts.py 95-96: the markers of the list that occur in the lowered text,
\* each counted once however often it occurs.
marker_count(t) ==
    LET text_lower == [i \in DOMAIN t |-> lower(t[i])]
    IN  Cardinality({k \in DOMAIN french_markers :
                        Contains(text_lower, french_markers[k])})

\* tts.py 89-97.
detect_language(t) == IF marker_count(t) >= 3 THEN "fr" ELSE "en"

\* A reader of the flag that takes a missing file for `openai`.
read_backend_cloud_default(content) ==
    IF content = "absent" THEN "openai" ELSE strip_line(content)

\* tts.py 31-36: what _read_backend returns when the flag file holds
\* `content`.
read_backend(content) ==
    IF content = "absent" THEN "piper" ELSE strip_line(content)

\* tts.py 16-38: a new invocation loads the module; USE_OPENAI is fixed.
tts_import ==
    /\ t_pc = "off"
    /\ USE_OPENAI' = (read_backend(tts_backend) = "openai")
    /\ flag_seen' = tts_backend
    /\ flag_reads' = 1
    /\ text' = <<>> /\ lang' = "none"
    /\ proc' = "none" /\ proc_piper' = "none" /\ proc_aplay' = "none"
    /\ pending' = FALSE
    /\ t_out' = "none"
    /\ t_pc' = "stdin"
    /\ UNCHANGED <<stdin, tool, paste>>

\* tts.py 49-51: nothing to say, exit status 0.
read_stdin ==
    /\ t_pc = "stdin"
    /\ text' = strip(stdin)
    /\ IF strip(stdin) = <<>>
       THEN t_pc' = "off" /\ t_out' = "exit"
       ELSE t_pc' = "dispatch" /\ UNCHANGED t_out
    /\ UNCHANGED <<stdin, USE_OPENAI, flag_seen, flag_reads, lang, proc,
                   proc_piper, proc_aplay, pending, tool, paste>>

\* tts.py 130-133.
dispatch ==
    /\ t_pc = "dispatch"
    /\ t_pc' = IF USE_OPENAI THEN "speak_openai" ELSE "speak_piper"
    /\ UNCHANGED <<stdin, USE_OPENAI, flag_seen, flag_reads, text, lang,
                   proc, proc_piper, proc_aplay, pending, t_out, tool,
                   paste>>

\* tts.py 55-72: the request is answered, or the call ends here (no API
\* key: SystemExit; the post or raise_for_status raises).
speak_openai ==
    /\ t_pc = "speak_openai"
    /\ \/ t_pc' = "openai_popen" /\ UNCHANGED t_out
       \/ t_pc' = "off" /\ t_out' = "raised"
    /\ UNCHANGED <<stdin, USE_OPENAI, flag_seen, flag_reads, text, lang,
                   proc, proc_piper, proc_aplay, pending, tool, paste>>

\* tts.py 74: the player is spawned, or Popen raises.
openai_popen ==
    /\ t_pc = "openai_popen"
    /\ \/ proc' = "running" /\ t_pc' = "openai_try" /\ UNCHANGED t_out
       \/ t_pc' = "off" /\ t_out' = "raised" /\ UNCHANGED proc
    /\ UNCHANGED <<stdin, USE_OPENAI, flag_seen, flag_reads, text, lang,
                   proc_piper, proc_aplay, pending, tool, paste>>

\* tts.py 75-82: everything is written and the player waited for; or the
\* player closed its pipe (BrokenPipeError, swallowed), still running or
\* not; or the stream raises something else, which goes on after finally.
openai_try ==
    /\ t_pc = "openai_try"
    /\ \/ proc' = "exited" /\ UNCHANGED pending
       \/ \E left \in {"running", "exited"} : proc' = left /\ UNCHANGED pending
       \/ pending' = TRUE /\ UNCHANGED proc
    /\ t_pc' = "openai_finally"
    /\ UNCHANGED <<stdin, USE_OPENAI, flag_seen, flag_reads, text, lang,
                   proc_piper, proc_aplay, t_out, tool, paste>>

\* tts.py 83-86: a player that poll() finds alive is terminated and waited
\* for.
openai_finally ==
    /\ t_pc = "openai_finally"
    /\ proc' = "exited"
    /\ t_out' = IF pending THEN "raised" ELSE "returned"
    /\ pending' = FALSE
    /\ t_pc' = "off"
    /\ UNCHANGED <<stdin, USE_OPENAI, flag_seen, flag_reads, text, lang,
                   proc_piper, proc_aplay, tool, paste>>

\* tts.py 101-102: the voice model follows the detected language.
speak_piper ==
    /\ t_pc = "speak_piper"
    /\ lang' = detect_language(text)
    /\ t_pc' = "piper_popen"
    /\ UNCHANGED <<stdin, USE_OPENAI, flag_seen, flag_reads, text, proc,
                   proc_piper, proc_aplay, pending, t_out, tool, paste>>

\* tts.py 103-108: the synthesizer is spawned, or Popen raises.
piper_popen ==
    /\ t_pc = "piper_popen"
    /\ \/ proc_piper' = "running" /\ t_pc' = "aplay_popen" /\ UNCHANGED t_out
       \/ t_pc' = "off" /\ t_out' = "raised" /\ UNCHANGED proc_piper
    /\ UNCHANGED <<stdin, USE_OPENAI, flag_seen, flag_reads, text, lang,
                   proc, proc_aplay, pending, tool, paste>>

\* tts.py 109-113: the player is spawned, or Popen raises: the statement
\* stands before the try, so the exception leaves speak_piper at once.
aplay_popen ==
    /\ t_pc = "aplay_popen"
    /\ \/ proc_aplay' = "running" /\ t_pc' = "piper_try" /\ UNCHANGED t_out
       \/ t_pc' = "off" /\ t_out' = "raised" /\ UNCHANGED proc_aplay
    /\ UNCHANGED <<stdin, USE_OPENAI, flag_seen, flag_reads, text, lang,
                   proc, proc_piper, pending, tool, paste>>

\* tts.py 114-120: the text is written and both children waited for; or a
\* pipe broke (swallowed) or something else was raised (it goes on after
\* finally), with each child still running or not.
piper_try ==
    /\ t_pc = "piper_try"
    /\ \/ /\ proc_piper' = "exited" /\ proc_aplay' = "exited"
          /\ UNCHANGED pending
       \/ /\ proc_piper' \in {"running", "exited"}
          /\ proc_aplay' \in {"running", "exited"}
          /\ pending' \in BOOLEAN
    /\ t_pc' = "piper_finally"
    /\ UNCHANGED <<stdin, USE_OPENAI, flag_seen, flag_reads, text, lang,
                   proc, t_out, tool, paste>>

\* tts.py 121-127: each child that poll() finds alive is terminated and
\* waited for.
piper_finally ==
    /\ t_pc = "piper_finally"
    /\ proc_piper' = "exited" /\ proc_aplay' = "exited"
    /\ t_out' = IF pending THEN "raised" ELSE "returned"
    /\ pending' = FALSE
    /\ t_pc' = "off"
    /\ UNCHANGED <<stdin, USE_OPENAI, flag_seen, flag_reads, text, lang,
                   proc, tool, paste>>

Utility ==
    \/ tts_import
    \/ read_stdin
    \/ dispatch
    \/ speak_openai
    \/ openai_popen
    \/ openai_try
    \/ openai_finally
    \/ speak_piper
    \/ piper_popen
    \/ aplay_popen
    \/ piper_try
    \/ piper_finally

\* Code points of the words the inputs are made of.
w_hello == <<104, 101, 108, 108, 111>>
w_world == <<119, 111, 114, 108, 100>>
w_cest == <<99, 39, 101, 115, 116>>                 \* c'est
w_une == <<117, 110, 101>>
w_belle == <<98, 101, 108, 108, 101>>
w_journee == <<106, 111, 117, 114, 110, 233, 101>>  \* journee, e acute
w_a_grave == <<224>>                                \* a grave
w_Le == <<76, 101>>

RECURSIVE join(_)
\* ' '.join(ws)
join(ws) ==
    IF Len(ws) = 1 THEN ws[1] ELSE ws[1] \o <<32>> \o join(Tail(ws))

\* What `echo` writes for a sentence: the words, one space between, a
\* newline.
echo(ws) == join(ws) \o <<10>>

HelloWorld == <<w_hello, w_world>>
BelleJournee == <<w_cest, w_une, w_belle, w_journee>>
\* The first usage example of tts.py (line 12): Bonjour, comment ca va ?
Bonjour ==
    << <<66, 111, 110, 106, 111, 117, 114, 44>>,
       <<99, 111, 109, 109, 101, 110, 116>>, <<231, 97>>, <<118, 97>>,
       <<63>> >>

(***************************************************************************)
(* The flag between the two programs: the toggle key of the dictation tool *)
(* and invocations of the utility, in any interleaving.  The flag file may *)
(* have been written by hand.                                              *)
(***************************************************************************)

FlagContents == {"absent", "piper", "openai", "piper\n", "openai\n"}

FlagKeys == {"cmd", "f9"}

FlagInputs == {<<10>>, echo(HelloWorld), echo(BelleJournee)}

InitFlag ==
    /\ Started
    /\ tts_backend \in FlagContents
    /\ \E input \in FlagInputs : UtilityOff(input)
    /\ PasteOff

NextFlag ==
    \/ \E key \in FlagKeys : on_press(key)
    \/ \E key \in FlagKeys : on_release(key)
    \/ Utility

SpecFlag == InitFlag /\ [][NextFlag]_vars

(***************************************************************************)
(* The language detector on its inputs: invocations of the utility on      *)
(* every sentence of at most MaxWords words of the vocabulary.             *)
(***************************************************************************)

\* Bound: the number of words of a sentence.
MaxWords == 4

Vocabulary ==
    {w_hello, w_world, w_cest, w_une, w_belle, w_journee, w_a_grave, w_Le}

Sentences == UNION {[1..n -> Vocabulary] : n \in 1..MaxWords}

LangInputs == {echo(ws) : ws \in Sentences \cup {Bonjour}} \cup {<<10>>}

InitLang ==
    /\ Started
    /\ tts_backend \in {"absent", "openai"}
    /\ \E input \in LangInputs : UtilityOff(input)
    /\ PasteOff

SpecLang == InitLang /\ [][Utility]_vars

(***************************************************************************)
(* copy_and_paste (src/dictate.py 141-147) on its input: one call, for     *)
(* every text the pipeline can hand it (transcribe() returns a stripped    *)
(* text, 161, and the call is made only if it is not empty, 224-226).      *)
(***************************************************************************)

\* Bound: the number of characters of a text.
MaxChars == 3

\* BEL, ESC, the unit separator, space, the letter b, DEL.
Chars == {7, 27, 31, 32, 98, 127}

\* foo, BEL, bar
FooBelBar == <<102, 111, 111, 7, 98, 97, 114>>

PasteInputs ==
    {t \in UNION {[1..n -> Chars] : n \in 1..MaxChars} : strip(t) = t}
        \cup {FooBelBar}

RECURSIVE strip_control_drops_space(_)
\* A filter that keeps only what lies above the space.
strip_control_drops_space(t) ==
    IF t = <<>> THEN <<>>
    ELSE (IF Head(t) > 32 THEN <<Head(t)>> ELSE <<>>)
             \o strip_control_drops_space(Tail(t))

RECURSIVE strip_control(_)
\* dictate.py 142: ''.join(c for c in text if c >= ' ')
strip_control(t) ==
    IF t = <<>> THEN <<>>
    ELSE (IF Head(t) >= 32 THEN <<Head(t)>> ELSE <<>>)
             \o strip_control(Tail(t))

\* dictate.py 142.
paste_strip ==
    /\ c_pc = "strip"
    /\ c_text' = strip_control(c_text)
    /\ c_pc' = "xclip"
    /\ UNCHANGED <<c_arg, clipboard, keystroke, tool, utility>>

\* dictate.py 143: xclip takes the text, or fails (check=True raises).
paste_xclip ==
    /\ c_pc = "xclip"
    /\ \/ clipboard' = Append(clipboard, c_text) /\ c_pc' = "is_terminal"
       \/ c_pc' = "raised" /\ UNCHANGED clipboard
    /\ UNCHANGED <<c_arg, c_text, keystroke, tool, utility>>

\* dictate.py 145 and 128-138: is_terminal() answers, False on any error.
paste_is_terminal ==
    /\ c_pc = "is_terminal"
    /\ \E terminal \in BOOLEAN :
          c_pc' = IF terminal THEN "xdotool" ELSE "returned"
    /\ UNCHANGED <<c_arg, c_text, clipboard, keystroke, tool, utility>>

\* dictate.py 146-147: the paste keystroke is sent, or xdotool fails.
paste_xdotool ==
    /\ c_pc = "xdotool"
    /\ \/ keystroke' = TRUE /\ c_pc' = "returned"
       \/ c_pc' = "raised" /\ UNCHANGED keystroke
    /\ UNCHANGED <<c_arg, c_text, clipboard, tool, utility>>

InitPaste ==
    /\ Started
    /\ tts_backend = "absent"
    /\ UtilityOff(<<>>)
    /\ c_pc = "strip"
    /\ c_arg \in PasteInputs /\ c_text = c_arg
    /\ clipboard = <<>>
    /\ keystroke = FALSE

NextPaste ==
    \/ paste_strip
    \/ paste_xclip
    \/ paste_is_terminal
    \/ paste_xdotool

SpecPaste == InitPaste /\ [][NextPaste]_vars

(***************************************************************************)
(* Properties.                                                             *)
(***************************************************************************)

\* The temporary files on disk.
Existing == {n \in Names : disk[n] # "none"}

\* The handler of the last event has returned.
Returned == pc = "listen"

\* C1: in every state at most one recorder process is alive and at most
\* one temporary file is on disk; when the handler of a begin-command (from
\* idle or superseding an active session) has returned, exactly one session
\* is active: the recording flag is set, the one recorder process alive is
\* the one held, the one temporary file on disk is the one referenced, and
\* every superseded session's file is deleted and its recorder has exited.
C1_OneActiveSession ==
    /\ Cardinality(procs) <= 1 /\ Cardinality(Existing) <= 1
    /\ (Returned /\ cmd \in {"begin", "restart"}) =>
           /\ recording
           /\ arecord_proc # 0 /\ procs = {arecord_proc}
           /\ tmpfile # 0 /\ Existing = {tmpfile}
           /\ \A n \in superseded : disk[n] = "none" /\ n \notin procs

\* Three begin-commands in a row: two sessions superseded, the third active.
C1_Witness ==
    /\ Returned /\ cmd = "restart" /\ recording
    /\ Cardinality(superseded) = 2
    /\ tmpfile = 3

\* C2: when the pipeline of an end-command has finished, whatever its
\* outcome, the marker is gone, the session's file is gone, the reference
\* is cleared, and each was removed exactly once in the cycle.
C2_CleanupExactlyOnce ==
    (Returned /\ cmd = "end") =>
        /\ ~dictating
        /\ tmpfile = 0
        /\ disk[created] = "none" /\ Existing = {}
        /\ removed = [tmp |-> 1, marker |-> 1]

\* A cycle that ended in an exception of the paste dispatcher.
C2_Witness ==
    /\ Returned /\ cmd = "end"
    /\ printed = <<"transcribing", "text", "error">>
    /\ removed = [tmp |-> 1, marker |-> 1]

\* What an event that dispatches nothing leaves alone: state, files,
\* processes, markers, requests; nothing is played, printed or pasted.
NothingHappens ==
    /\ UNCHANGED <<prog, pc, world, reqs, superseded>>
    /\ cmd' = "none"
    /\ beeps' = <<>> /\ printed' = <<>>
    /\ removed' = NoneRemoved /\ pasted' = NonePasted

\* C3: a press of f6 with the trigger modifier held and no session active
\* changes nothing and raises nothing.
C3_EndWhileIdleIsNoOp ==
    [][(on_press("f6") /\ super_held /\ ~recording) => NothingHappens]_vars

\* The last event was such a press, after an earlier session that ended.
C3_Witness ==
    /\ Returned /\ event = [key |-> "f6", press |-> TRUE]
    /\ super_held /\ ~recording
    /\ cmd = "none" /\ created > 0

\* C4: a superseded session's file is deleted and never uploaded; a
\* begin-command prints "(restarted)" once if it superseded a session and
\* never otherwise; the file an end-command uploads is the one of the
\* session started last, and the end-command's handler returns.
C4_RestartDiscards ==
    /\ \A n \in superseded : disk[n] = "none" /\ reqs[n] = 0
    /\ Count(printed, "restarted") =
         IF cmd = "restart" /\ pc \notin {"start_recording", "discard"}
         THEN 1 ELSE 0
    /\ pc \in {"transcribe", "paste"} =>
         /\ tmpfile = created /\ tmpfile \notin superseded
         /\ reqs[tmpfile] = 1
    /\ cmd = "end" => pc # "stopped"

\* begin, begin, end: the second session's file was uploaded and pasted.
C4_Witness ==
    /\ Returned /\ cmd = "end"
    /\ created = 2 /\ superseded = {1}
    /\ reqs[2] = 1 /\ reqs[1] = 0
    /\ printed = <<"transcribing", "text">>

\* The messages that close a cycle without a transcript: "(empty)",
\* "(no audio)", or the error of a transcription call that failed.
EndedWithoutText ==
    /\ Returned /\ cmd = "end"
    /\ Count(printed, "text") = 0

\* C5 as stated: the clipboard is written, the paste keystroke sent and the
\* "ready" tone played only after a non-empty transcript, and a cycle that
\* ends in "(empty)", "(no audio)" or any error has written no clipboard
\* and sent no keystroke.
C5_NoPasteInAnyFailedCycle ==
    /\ (pasted # NonePasted \/ Count(beeps, "ready") > 0) =>
           (cmd = "end" /\ Count(printed, "text") = 1)
    /\ (Returned /\ cmd = "end"
          /\ printed[Len(printed)] \in {"empty", "noaudio", "error"}) =>
           pasted = NonePasted

\* C5, amended: the same, for the cycles whose transcription call gave no
\* text (empty transcript, no audio, failed call); a cycle whose paste
\* dispatcher fails after its clipboard write ends in an error with the
\* clipboard written, and the "ready" tone is played only when the
\* dispatcher succeeded.
C5_PasteOnlyAfterText ==
    /\ (pasted # NonePasted \/ Count(beeps, "ready") > 0) =>
           (cmd = "end" /\ Count(printed, "text") = 1)
    /\ EndedWithoutText => pasted = NonePasted /\ Count(beeps, "ready") = 0
    /\ Count(beeps, "ready") > 0 =>
           pasted.clip = 1 /\ Count(printed, "error") = 0

\* A cycle whose transcription call failed: nothing was pasted.
C5_Witness ==
    /\ EndedWithoutText
    /\ printed = <<"transcribing", "error">>
    /\ pasted = NonePasted

\* C6: no file is uploaded twice; by the time the pipeline reaches its
\* cleanup the session's file was uploaded once if it holds audio and not
\* at all if it is empty, also when the one request failed; a superseded
\* session's file is never uploaded.
C6_AtMostOneRequest ==
    /\ \A n \in Names : reqs[n] <= 1
    /\ \A n \in superseded : reqs[n] = 0
    /\ (pc = "finally" /\ tmpfile # 0) =>
           reqs[tmpfile] = IF disk[tmpfile] = "data" THEN 1 ELSE 0

\* A request failed and the pipeline is at its cleanup: one request.
C6_Witness ==
    /\ pc = "finally" /\ tmpfile # 0
    /\ printed = <<"transcribing", "error">>
    /\ reqs[tmpfile] = 1

\* A session is open from its start to the end of the pipeline that ends
\* it, the steps of a restart included.
SessionOpen ==
    \/ recording
    \/ cmd = "restart" /\ pc \in {"start_recording", "discard", "touch",
                                   "tempfile", "popen"}
    \/ pc \in {"stop_and_transcribe", "try", "transcribe", "paste", "finally"}

\* C7: the marker exists in every state in which a session is open, the
\* intermediate states of a restart included, and the only step that
\* removes it is the cleanup of the end-command's pipeline.
C7_MarkerWhileOpen ==
    /\ [](SessionOpen => dictating)
    /\ [][(dictating /\ ~dictating') => (pc = "finally" /\ cmd = "end")]_vars

\* In the middle of a restart: the old session stopped, its file not yet
\* deleted, the marker still there.
C7_Witness ==
    /\ cmd = "restart" /\ pc = "discard"
    /\ ~recording /\ tmpfile # 0 /\ dictating

\* C8: a key-repeat press of a command key (a press of a key that is
\* still down from its previous press) dispatches no command.
C8_RepeatDispatchesNothing == repeat => cmd = "none"

\* The case C8 singles out: f5 held with the trigger modifier, so that its
\* press repeats, restarts no session.
HeldBeginNeverRestarts == (repeat /\ event.key = "f5") => cmd # "restart"

\* What a modifier event leaves alone.
SessionUntouched ==
    /\ UNCHANGED <<recording, arecord_proc, tmpfile, lock, pc, world, reqs,
                   superseded>>
    /\ cmd' = "none"
    /\ beeps' = <<>> /\ printed' = <<>>
    /\ removed' = NoneRemoved /\ pasted' = NonePasted

C10_ErrorsDegrade ==
    /\ pc # "stopped"
    /\ (pc = "stopped" \/ (Returned /\ ~recording)) =>
           (~dictating /\ Existing = {})

\* A step that is the toggle command: a step of the dictation tool, from
\* between two events, that dispatches "toggle".
ToggleStep == pc = "listen" /\ utility' = utility /\ cmd' = "toggle"

\* C11: whatever the flag file holds, two toggles in a row lead back to
\* the backend it stood for (a missing file stands for `piper`), and from a
\* missing file the first writes `openai` and the second `piper`; a toggle
\* command writes what `toggled` says and nothing else writes the flag.
C11_ToggleTwiceRestores ==
    /\ [](LET once == toggled(tts_backend)
              twice == toggled(once)
          IN  /\ current_backend(twice) = current_backend(tts_backend)
              /\ current_backend(once) # current_backend(tts_backend)
              /\ tts_backend = "absent" =>
                     once = "openai" /\ twice = "piper")
    /\ [][ToggleStep => tts_backend' = toggled(tts_backend)]_vars
    /\ [][tts_backend' # tts_backend => ToggleStep]_vars

\* An invocation of the utility found no flag file; since then toggle
\* commands (the first wrote `openai`, the last one `piper`) have brought
\* the flag back to the backend a missing file stands for.
C11_Witness ==
    /\ flag_seen = "absent" /\ t_pc # "off"
    /\ cmd = "toggle" /\ printed = <<"backend">>
    /\ tts_backend = "piper"

\* The positions of the utility inside each speak function.
InOpenai ==
    t_pc \in {"speak_openai", "openai_popen", "openai_try", "openai_finally"}

InPiper ==
    t_pc \in {"speak_piper", "piper_popen", "aplay_popen", "piper_try",
              "piper_finally"}

\* C12: an invocation of the utility reads the flag once, when it starts,
\* and speaks with the engine it read even if the flag is toggled while it
\* runs; no step of the utility writes the flag; with the flag file missing
\* it selects the local engine; and every toggle command flips the engine
\* an invocation starting next would select.
C12_FlagAgreement ==
    /\ [](/\ flag_reads = (IF flag_seen = "unread" THEN 0 ELSE 1)
          /\ t_pc # "off" => flag_reads = 1
          /\ flag_reads = 1 =>
                 USE_OPENAI = (current_backend(flag_seen) = "openai")
          /\ InOpenai => USE_OPENAI
          /\ InPiper => ~USE_OPENAI)
    /\ [][utility' # utility => tts_backend' = tts_backend]_vars
    /\ [][<<USE_OPENAI, flag_seen, flag_reads>>'
             # <<USE_OPENAI, flag_seen, flag_reads>> => t_pc = "off"]_vars
    /\ [][(t_pc = "off" /\ t_pc' # "off" /\ tts_backend = "absent") =>
             ~USE_OPENAI']_vars
    /\ [][ToggleStep =>
             (read_backend(tts_backend') = "openai")
               # (read_backend(tts_backend) = "openai")]_vars

\* An invocation that found `piper` in the flag is about to spawn the
\* local synthesizer although a toggle has written `openai` meanwhile.
C12_Witness ==
    /\ t_pc = "piper_popen" /\ ~USE_OPENAI
    /\ flag_seen = "piper" /\ flag_reads = 1
    /\ cmd = "toggle" /\ tts_backend = "openai"

\* What a navigation press leaves alone: the flags, the session, the files
\* and processes, the backend flag; nothing is played, printed or pasted.
NavigationOnly ==
    /\ UNCHANGED <<prog, pc, disk, procs, created, dictating, tts_backend,
                   reqs, superseded>>
    /\ beeps' = <<>> /\ printed' = <<>>
    /\ removed' = NoneRemoved /\ pasted' = NonePasted

\* C13: a press of f7 with the trigger held creates the "prev" marker if
\* the secondary modifier is held and the "skip" marker if not, and touches
\* no other marker; a press of f8 with the trigger held creates the "pause"
\* marker whatever the secondary modifier; these presses leave the session
\* alone; and no step ever removes a navigation marker.
C13_NavMarkers ==
    [][/\ (pc = "listen" /\ super_held
             /\ event' = [key |-> "f7", press |-> TRUE]) =>
            /\ IF shift_held
               THEN tts_prev' /\ UNCHANGED <<tts_skip, tts_pause>>
               ELSE tts_skip' /\ UNCHANGED <<tts_prev, tts_pause>>
            /\ cmd' = (IF shift_held THEN "prev" ELSE "skip")
            /\ NavigationOnly
       /\ (pc = "listen" /\ super_held
             /\ event' = [key |-> "f8", press |-> TRUE]) =>
            /\ tts_pause' /\ UNCHANGED <<tts_skip, tts_prev>>
            /\ cmd' = "pause"
            /\ NavigationOnly
       /\ (tts_skip => tts_skip') /\ (tts_prev => tts_prev')
       /\ (tts_pause => tts_pause')
      ]_vars

\* During a session, f7 was pressed with both modifiers held: the "prev"
\* marker exists, the "skip" marker does not, the session goes on.
C13_Witness ==
    /\ Returned /\ event = [key |-> "f7", press |-> TRUE]
    /\ cmd = "prev" /\ super_held /\ shift_held
    /\ tts_prev /\ ~tts_skip /\ ~tts_pause
    /\ recording /\ arecord_proc = tmpfile /\ dictating

\* The French markers as C14 counts them: every accented letter of
\* the list wherever it stands, every word of the list wherever it stands
\* as a word (at the start and the end of the text too), each occurrence
\* counted.
MarkerOccurrences(t) ==
    LET tl == [i \in DOMAIN t |-> lower(t[i])]
        letters == {i \in DOMAIN tl :
                      \E k \in 1..14 : french_markers[k] = <<tl[i]>>}
        words == {ik \in (DOMAIN tl) \X (15..33) :
                    LET w == strip(french_markers[ik[2]])
                        last == ik[1] + Len(w) - 1
                    IN  /\ last <= Len(tl)
                        /\ SubSeq(tl, ik[1], last) = w
                        /\ ik[1] = 1 \/ tl[ik[1] - 1] = 32
                        /\ last = Len(tl) \/ tl[last + 1] = 32}
    IN  Cardinality(letters) + Cardinality(words)

\* C14: the detector answers "fr" for every text with three or more
\* French marker occurrences and "en" for every text with none or one;
\* "c'est une belle journee" (e acute) is French, "hello world" English.
C14_DetectsByOccurrences ==
    lang # "none" =>
        /\ MarkerOccurrences(text) >= 3 => lang = "fr"
        /\ MarkerOccurrences(text) <= 1 => lang = "en"
        /\ text = join(BelleJournee) => lang = "fr"
        /\ text = join(HelloWorld) => lang = "en"

\* The example of C14 alone.
BelleJourneeIsFrench ==
    (lang # "none" /\ text = join(BelleJournee)) => lang = "fr"

\* The first usage example of tts.py, a French sentence, gets the French
\* voice.
BonjourIsFrench == (lang # "none" /\ text = join(Bonjour)) => lang = "fr"

\* `out` is `t` without its characters below the space, the others in
\* their order: the k-th character kept is the k-th character of `out`.
IsStripped(out, t) ==
    LET keep == {i \in DOMAIN t : t[i] >= 32}
    IN  /\ Len(out) = Cardinality(keep)
        /\ \A i \in keep : out[Cardinality({j \in keep : j <= i})] = t[i]

\* C15: the clipboard is written at most once in a call, with the input
\* less its characters below the space (foo BEL bar gives foobar); a call
\* that got past xclip has written it, and the keystroke is sent only
\* after it was written.
C15_ClipboardIsStrippedInput ==
    /\ Len(clipboard) <= 1
    /\ \A k \in DOMAIN clipboard : IsStripped(clipboard[k], c_arg)
    /\ (c_arg = FooBelBar /\ clipboard # <<>>) =>
           clipboard[1] = <<102, 111, 111, 98, 97, 114>>
    /\ c_pc \in {"is_terminal", "xdotool", "returned"} => Len(clipboard) = 1
    /\ keystroke => Len(clipboard) = 1

\* The example of C15, pasted into a terminal.
C15_Witness ==
    /\ c_pc = "returned" /\ keystroke
    /\ c_arg = FooBelBar
    /\ clipboard = << <<102, 111, 111, 98, 97, 114>> >>

\* A speak function has returned or raised.
SpeakEnded == t_out \in {"returned", "raised"}

\* C16: when a speak function has returned or raised, no child it spawned
\* is still running.
C16_ChildrenExited ==
    SpeakEnded =>
        proc # "running" /\ proc_piper # "running" /\ proc_aplay # "running"

\* The cloud path alone: its one child has exited when speak_openai ends.
OpenaiChildExited == (SpeakEnded /\ USE_OPENAI) => proc # "running"

\* The local path when both children were spawned.
PiperChildrenExited ==
    (SpeakEnded /\ proc_aplay # "none") =>
        proc_piper = "exited" /\ proc_aplay = "exited"

\* The transcription request is in flight (requests.post, 154-159).
InFlight == pc = "transcribe"

\* C17: the lock is not held while the transcription call is in flight,
\* and a modifier event can be handled then.
C17_LockFreeDuringCall ==
    InFlight =>
        /\ ~lock
        /\ ENABLED (\E key \in SUPER_KEYS \cup SHIFT_KEYS : on_release(key))

\* The second half of C17 alone: while the call is in flight a release of
\* the trigger modifier can be handled.
ModifiersAppliedDuringCall == InFlight => ENABLED on_release("cmd")

\* The positions of the pipeline of an end-command.
InPipeline ==
    pc \in {"stop_and_transcribe", "try", "transcribe", "paste", "finally"}

\* C18: the pipeline belongs to an end-command and, from the upload on, to
\* the session started last, whose file is the only one on disk and is not
\* recorded into; while it runs no event is taken and no session starts;
\* a call in flight can only end (text, empty text, error), touching
\* neither file nor marker nor reference; and the cleanup removes that
\* session's file and the marker and returns to idle, so a begin-command
\* takes effect only after it.
C18_PipelineUninterrupted ==
    /\ [](InPipeline =>
            /\ cmd = "end" /\ lock
            /\ tmpfile = created /\ tmpfile # 0 /\ Existing = {tmpfile}
            /\ dictating)
    /\ [](pc \in {"try", "transcribe", "paste", "finally"} =>
            ~recording /\ procs = {} /\ arecord_proc = 0)
    /\ [][InPipeline =>
            (UNCHANGED <<event, cmd, last_pressed, super_held, shift_held,
                         created, superseded>>)]_vars
    /\ [][(pc \in {"try", "transcribe", "paste"}) =>
            (UNCHANGED <<tmpfile, disk, dictating, recording, arecord_proc,
                         procs, lock>>)]_vars
    /\ [][InFlight => pc' \in {"paste", "finally"}]_vars
    /\ [][(pc = "finally") =>
            (/\ pc' = "listen" /\ ~recording' /\ ~dictating'
             /\ tmpfile' = 0 /\ Existing' = {})]_vars
    /\ [][(created' # created) =>
            (cmd \in {"begin", "restart"} /\ ~InPipeline)]_vars

\* A second session, begun after the pipeline of the first (whose file was
\* uploaded) had finished: its file and the marker are there.
C18_Witness ==
    /\ Returned /\ cmd = "begin" /\ recording
    /\ created = 2 /\ superseded = {}
    /\ reqs[1] = 1 /\ disk[1] = "none"
    /\ Existing = {2} /\ tmpfile = 2 /\ dictating

\* The handler has stopped the session its command ends or supersedes.
AfterStop ==
    \/ cmd = "end" /\ pc \in {"try", "transcribe", "paste", "finally",
                                "listen"}
    \/ cmd = "restart" /\ pc \in {"discard", "touch", "tempfile", "popen",
                                    "listen", "stopped"}

\* C19 as stated: the handler that ends a session, by an end-command or by
\* a begin-command that supersedes it, has played the "stop" tone once when
\* the session is stopped; the handler of a begin-command that started a
\* session has played the "start" tone once.
C19_StopToneOnEveryTermination ==
    /\ AfterStop => Count(beeps, "stop") = 1
    /\ (cmd \in {"begin", "restart"} /\ Returned) =>
           Count(beeps, "start") = 1

\* C19, amended: an end-command plays the "stop" tone once, and nothing
\* else plays it: a session superseded by a begin-command is stopped
\* without a tone; a begin-command plays the "start" tone once, when the
\* new file exists and before the recorder is spawned, also if the spawn
\* then fails.
C19_TonesPerCommand ==
    /\ Count(beeps, "stop") =
         IF cmd = "end" /\ pc # "stop_and_transcribe" THEN 1 ELSE 0
    /\ Count(beeps, "start") =
         IF cmd \in {"begin", "restart"}
              /\ pc \in {"popen", "listen", "stopped"}
         THEN 1 ELSE 0

\* A begin-command has superseded a session: the only tone is "start".
C19_Witness ==
    /\ Returned /\ cmd = "restart" /\ recording
    /\ superseded # {}
    /\ beeps = <<"start">>

\* C20: between events the recording flag is set exactly when a recorder
\* handle is held, exactly when the reference is set and its file exists,
\* exactly when the marker exists; then the recorder held is the one alive
\* and the file referenced the only one; idle, no recorder is alive, the
\* reference is cleared and no temporary file is left.
C20_BetweenEvents ==
    Returned =>
        /\ recording = (arecord_proc # 0)
        /\ recording = (tmpfile # 0 /\ tmpfile \in Existing)
        /\ recording = dictating
        /\ recording => procs = {arecord_proc} /\ Existing = {tmpfile}
        /\ ~recording => procs = {} /\ tmpfile = 0 /\ Existing = {}

\* Idle again after a session was superseded and its successor ended.
C20_Witness ==
    /\ Returned /\ ~recording /\ cmd = "end"
    /\ superseded # {} /\ created >= 2
    /\ arecord_proc = 0 /\ tmpfile = 0 /\ ~dictating

====
